---- MODULE Spec2Model ----
(***************************************************************************)
(* Swap-status subsystem of the bootloader                                 *)
(* (boot/bootutil/src/swap_status_misc.c, MCUBOOT_SWAP_USING_STATUS).      *)
(*                                                                         *)
(* The model keeps the flash at byte level: the status partition (one      *)
(* sub-area of BOOT_SWAP_STATUS_SIZE bytes per area id, addressed by the   *)
(* flat offsets swap_status_retrieve/swap_status_update take) and the tail *)
(* of every image slot (the legacy trailer).  Every function of the file   *)
(* is a sequence of steps, one per flash call, so that a reset or a flash  *)
(* failure can hit between any two calls.                                  *)
(***************************************************************************)
EXTENDS Integers, Sequences, FiniteSets, TLC

(* ------------------------------------------------------------------ *)
(* Program constants                                                   *)
(* ------------------------------------------------------------------ *)
BOOT_MAGIC_SZ == 16
BOOT_MAX_ALIGN == 8
BOOT_MAGIC_GOOD == 1
BOOT_MAGIC_BAD == 2
BOOT_MAGIC_UNSET == 3
BOOT_FLAG_SET == 1
BOOT_FLAG_BAD == 2
BOOT_FLAG_UNSET == 3
BOOT_SWAP_TYPE_NONE == 1
BOOT_SWAP_TYPE_TEST == 2
BOOT_SWAP_TYPE_PERM == 3
BOOT_SWAP_TYPE_REVERT == 4
BOOT_EFLASH == 1
BOOT_ENC_KEY_SIZE == 16
BOOT_SWAP_STATUS_TRAILER_SIZE == 64
BOOT_STATUS_OP_MOVE == 1
BOOT_STATUS_OP_SWAP == 2
BOOT_STATUS_SOURCE_NONE == 0
BOOT_STATUS_SOURCE_PRIMARY_SLOT == 2

\* flash area ids
FLASH_AREA_IMAGE_0 == 0
FLASH_AREA_IMAGE_1 == 1
FLASH_AREA_IMAGE_2 == 2
FLASH_AREA_IMAGE_3 == 3
FLASH_AREA_IMAGE_SCRATCH == 4
FLASH_AREA_IMAGE_SWAP_STATUS == 5

\* size of the data part of one status sub-area (trailer fields at its end,
\* the step-progress bytes at its start)
BOOT_SWAP_STATUS_D_SIZE_RAW == 272
\* size of one status sub-area, the range swap_erase_trailer_sectors erases
BOOT_SWAP_STATUS_SIZE == 272

\* size of an image slot; the model keeps only its last
\* BOOT_SWAP_STATUS_TRAILER_SIZE bytes, the rest holds the image
SlotSize == 128

Slots == {FLASH_AREA_IMAGE_0, FLASH_AREA_IMAGE_1, FLASH_AREA_IMAGE_2, FLASH_AREA_IMAGE_3}
StatusAreas == Slots \cup {FLASH_AREA_IMAGE_SCRATCH}
AreaIds == StatusAreas \cup {FLASH_AREA_IMAGE_SWAP_STATUS}

boot_img_magic ==
    << 119, 194, 149, 243, 96, 210, 239, 127, 53, 82, 80, 15, 44, 182, 121, 128 >>


FLASH_AREA_IMAGE_PRIMARY(i) == IF i = 0 THEN FLASH_AREA_IMAGE_0 ELSE FLASH_AREA_IMAGE_2
FLASH_AREA_IMAGE_SECONDARY(i) == IF i = 0 THEN FLASH_AREA_IMAGE_1 ELSE FLASH_AREA_IMAGE_3

(* ------------------------------------------------------------------ *)
(* Decoders and byte conversions                                       *)
(* ------------------------------------------------------------------ *)
\* memcmp(magic, boot_img_magic, BOOT_MAGIC_SZ) == 0
MagicEqual(buf) == \A i \in 1 .. BOOT_MAGIC_SZ : buf[i] = boot_img_magic[i]

boot_magic_decode(buf) == IF MagicEqual(buf) THEN BOOT_MAGIC_GOOD ELSE BOOT_MAGIC_BAD

boot_flag_decode(flag) == IF flag # BOOT_FLAG_SET THEN BOOT_FLAG_BAD ELSE BOOT_FLAG_SET

\* every byte of buf is the erased value ev
boot_read_data_empty(ev, buf) == IF \A i \in 1 .. Len(buf) : buf[i] = ev THEN 1 ELSE 0

BOOT_SET_SWAP_INFO(image, type) == ((image * 16) + type) % 256
BOOT_GET_SWAP_TYPE(swap_info) == swap_info % 16
BOOT_GET_IMAGE_NUM(swap_info) == swap_info \div 16

\* A uint32_t is kept as the four bytes of the object (little endian), which is
\* what the trailer writes and the status reads copy; U32Bytes(n) is the object
\* that holds n.
U32Bytes(n) == [i \in 1 .. 4 |-> (n \div (256 ^ (i - 1))) % 256]

(* ------------------------------------------------------------------ *)
(* Flash layer                                                         *)
(* ------------------------------------------------------------------ *)
\* start of the status sub-area of an area id inside the status partition
swap_status_init_offset(fa_id) == fa_id * BOOT_SWAP_STATUS_SIZE

\* A flash (the status partition, or the area of one slot) is kept as the
\* function from the positions that hold something else than the erased value
\* ev to the byte they hold; a position outside its domain reads ev.
Erased == [p \in {} |-> 0]
FlashRead(f, ev, p) == IF p \in DOMAIN f THEN f[p] ELSE ev

\* f after programming buf at positions base, base + 1, ...
FlashStore(f, ev, base, buf) ==
    LET new == {base + i - 1 : i \in 1 .. Len(buf)}
        kept == {p \in new : buf[p - base + 1] # ev}
    IN  [p \in (DOMAIN f \ new) \cup kept |->
            IF p \in new THEN buf[p - base + 1] ELSE f[p]]

\* f after erasing [off, off + len)
FlashErase(f, off, len) ==
    [p \in {q \in DOMAIN f : q < off \/ q >= off + len} |-> f[p]]

\* the len bytes at flat offset off of the status sub-area of fa_id
StatusBytes(s, ev, fa_id, off, len) ==
    [i \in 1 .. len |-> FlashRead(s, ev, swap_status_init_offset(fa_id) + off + i - 1)]

\* the status partition after storing buf at flat offset off of fa_id's sub-area
StatusStore(s, ev, fa_id, off, buf) ==
    FlashStore(s, ev, swap_status_init_offset(fa_id) + off, buf)

\* the len bytes at offset off of a slot's own area
AreaBytes(a, ev, fa_id, off, len) == [i \in 1 .. len |-> FlashRead(a[fa_id], ev, off + i - 1)]

\* the slot areas after erasing [off, off + len) of slot fa_id
AreaErase(a, fa_id, off, len) == [a EXCEPT ![fa_id] = FlashErase(a[fa_id], off, len)]

fa_size(fa_id) == SlotSize

(* ------------------------------------------------------------------ *)
(* State                                                               *)
(* ------------------------------------------------------------------ *)
VARIABLES
    cfg,        \* the build and target: erased_val, enc, tlv_size, scratch, image_index, raw
    stat,       \* the status partition, byte by byte
    area,       \* the last BOOT_SWAP_STATUS_TRAILER_SIZE bytes of every slot
    sectors,    \* state->status.sectors: the sizes of the status sectors, in order
    opened,     \* number of open handles of every flash area
    badclose,   \* number of flash_area_close calls on a handle that was never opened
    pc,         \* position of the running function
    call,       \* the running top-level call: [name, fap]
    rd,         \* locals of boot_read_swap_state
    er,         \* locals of swap_erase_trailer_sectors and of the other functions
    st,         \* the struct boot_swap_state the running call fills in
    bs,         \* the struct boot_status of the running call
    hist,       \* the top-level calls so far, each with how it ended
    faults,     \* number of flash calls that may still fail
    wlog,       \* the flash writes and erases the running (or last) call issued
    snap        \* the state as it was when the running (or last) call started

vars == << cfg, stat, area, sectors, opened, badclose, pc, call, rd, er, st, bs,
           hist, faults, wlog, snap >>

flash == << stat, area >>
env == << cfg, sectors >>

(* ------------------------------------------------------------------ *)
(* Offset section                                                      *)
(* ------------------------------------------------------------------ *)
\* BOOT_SWAP_STATUS_D_SIZE_RAW is cfg.raw, the raw size the build gives the region
boot_magic_off(fap) == cfg.raw - BOOT_MAGIC_SZ
boot_image_ok_off(fap) == boot_magic_off(fap) - 1
\* copy_done placed on the image_ok byte
boot_copy_done_off_on_image_ok(fap) == boot_magic_off(fap) - 1
boot_copy_done_off(fap) == boot_image_ok_off(fap) - 1
\* swap_info placed on the copy_done byte
boot_swap_info_off_on_copy_done(fap) == boot_copy_done_off(fap)
boot_swap_info_off(fap) == boot_copy_done_off(fap) - 1
boot_swap_size_off(fap) == boot_swap_info_off(fap) - 4
boot_status_off(fap) == 0

\* stride between the two key slots and number of bytes one key write stores,
\* for a build c = [enc |-> "off" | "key" | "tlv", tlv_size |-> n]
BOOT_ENC_TLV_ALIGN_SIZE(c) ==
    (((c.tlv_size - 1) \div BOOT_MAX_ALIGN) + 1) * BOOT_MAX_ALIGN
EncKeyStride(c) == IF c.enc = "tlv" THEN c.tlv_size ELSE BOOT_ENC_KEY_SIZE
EncKeyWriteLen(c) == IF c.enc = "tlv" THEN BOOT_ENC_TLV_ALIGN_SIZE(c) ELSE BOOT_ENC_KEY_SIZE
boot_enc_key_off(c, fap, slot) == boot_swap_size_off(fap) - ((slot + 1) * EncKeyStride(c))


NoCall == [name |-> "none", fap |-> 0]
NoRd == [fap |-> 0, off |-> 0, trailer_off |-> 0, erase_trailer |-> 0, legacy_read |-> {}]
NoEr == [sector |-> 0, total_sz |-> 0, sub_offs |-> 0, rc |-> 0]
NoSt == [magic |-> 0, swap_type |-> 0, image_num |-> 0, copy_done |-> 0, image_ok |-> 0]
NoBs == [swap_type |-> BOOT_SWAP_TYPE_NONE, swap_size |-> U32Bytes(0), image_num |-> 0, slot |-> 0,
         idx |-> 1, state |-> 1, op |-> BOOT_STATUS_OP_MOVE, use_scratch |-> FALSE,
         source |-> BOOT_STATUS_SOURCE_NONE]

\* the outcomes a flash call can have: TRUE is success
Outcomes == IF faults > 0 THEN {TRUE, FALSE} ELSE {TRUE}
Spend(ok) == faults' = IF ok THEN faults ELSE faults - 1

Update(fa_id, off, buf) ==
    /\ stat' = StatusStore(stat, cfg.erased_val, fa_id, off, buf)
    /\ wlog' = Append(wlog, [kind |-> "update", fa_id |-> fa_id, off |-> off, len |-> Len(buf)])

Open(fa_id) == opened' = [opened EXCEPT ![fa_id] = @ + 1]

\* how a top-level call ended: "ret" with the value rc, or "reset", at position at;
\* rec is the status sub-area of its slot at that time (s is the status partition)
\* and w the flash writes the call issued
SubArea(s, fa_id) ==
    LET base == swap_status_init_offset(fa_id)
    IN  [p \in {q \in DOMAIN s : q >= base /\ q < base + BOOT_SWAP_STATUS_SIZE} |-> s[p]]

Ended(how, v, s, w) ==
    [name |-> call.name, fap |-> call.fap, bs |-> bs, end |-> how, rc |-> v, at |-> pc,
     rec |-> SubArea(s, call.fap), w |-> w,
     pre |-> [stat |-> snap.stat, area |-> snap.area]]

\* a top-level call returns v to its caller; s is the status partition it leaves
\* and w the writes it issued
ReturnS(v, s, w) ==
    /\ pc' = "idle"
    /\ hist' = Append(hist, Ended("ret", v, s, w))
    /\ call' = NoCall

Return(v) == ReturnS(v, stat, wlog)

Last == hist[Len(hist)]
Returned(name) == pc = "idle" /\ Len(hist) > 0 /\ Last.name = name /\ Last.end = "ret"

Close(fa_id) ==
    IF opened[fa_id] > 0
    THEN opened' = [opened EXCEPT ![fa_id] = @ - 1] /\ UNCHANGED badclose
    ELSE badclose' = badclose + 1 /\ UNCHANGED opened

(* ------------------------------------------------------------------ *)
(* boot_read_swap_state                                                *)
(* ------------------------------------------------------------------ *)
IsUpgradeSlot(fa_id) == fa_id = FLASH_AREA_IMAGE_1 \/ fa_id = FLASH_AREA_IMAGE_3
IsPrimarySlot(fa_id) == fa_id = FLASH_AREA_IMAGE_0 \/ fa_id = FLASH_AREA_IMAGE_2

\* boot_read_swap_state returns v: to the caller of the top-level call, or to
\* swap_status_init through boot_read_swap_state_by_id, which closes the slot
\* it opened and whose result swap_status_init asserts to be 0
ReadReturnW(v, w) ==
    IF call.name = "init"
    THEN /\ pc' = IF v = 0 THEN "in_swap_info" ELSE "halted"
         /\ Close(rd.fap)
         /\ UNCHANGED << hist, call >>
    ELSE /\ ReturnS(v, stat, w)
         /\ UNCHANGED << opened, badclose >>

ReadReturn(v) == ReadReturnW(v, wlog)

\* flash_area_open(FLASH_AREA_IMAGE_SWAP_STATUS, &fap_stat)
rs_open(ok) ==
    /\ pc = "rs_open"
    /\ Spend(ok)
    /\ IF ok
       THEN /\ Open(FLASH_AREA_IMAGE_SWAP_STATUS)
            /\ pc' = "rs_magic"
            /\ UNCHANGED << badclose, hist, call >>
       ELSE ReadReturn(BOOT_EFLASH)
    /\ UNCHANGED << env, flash, rd, er, st, bs, wlog, snap >>

\* the magic field of the status partition
rs_magic(ok) ==
    /\ pc = "rs_magic"
    /\ Spend(ok)
    /\ LET off == boot_magic_off(rd.fap)
           magic == StatusBytes(stat, cfg.erased_val, rd.fap, off, BOOT_MAGIC_SZ)
       IN  IF ~ok
           THEN ReadReturn(BOOT_EFLASH) /\ UNCHANGED << rd, st >>
           ELSE /\ rd' = [rd EXCEPT !.off = off]
                /\ UNCHANGED << opened, badclose, hist, call >>
                /\ IF boot_read_data_empty(cfg.erased_val, magic) = 1
                   THEN /\ st' = [st EXCEPT !.magic = BOOT_MAGIC_UNSET]
                        /\ pc' = IF IsUpgradeSlot(rd.fap) THEN "rs_legacy_magic" ELSE "rs_swap_info"
                   ELSE /\ st' = [st EXCEPT !.magic = boot_magic_decode(magic)]
                        /\ pc' = "rs_swap_info"
    /\ UNCHANGED << env, flash, er, bs, wlog, snap >>

\* the magic at the end of the slot's own area
rs_legacy_magic(ok) ==
    /\ pc = "rs_legacy_magic"
    /\ Spend(ok)
    /\ LET trailer_off == fa_size(rd.fap) - BOOT_MAGIC_SZ
           magic == AreaBytes(area, cfg.erased_val, rd.fap, trailer_off, BOOT_MAGIC_SZ)
       IN  /\ rd' = [rd EXCEPT !.trailer_off = trailer_off,
                               !.legacy_read = @ \cup {"magic"},
                               !.erase_trailer =
                                   IF ok /\ boot_read_data_empty(cfg.erased_val, magic) = 0
                                         /\ boot_magic_decode(magic) # BOOT_MAGIC_GOOD
                                   THEN 1 ELSE @]
           /\ IF ~ok
              THEN ReadReturn(BOOT_EFLASH) /\ UNCHANGED st
              ELSE /\ UNCHANGED << opened, badclose, hist, call >>
                   /\ IF boot_read_data_empty(cfg.erased_val, magic) = 1
                      THEN /\ st' = [st EXCEPT !.magic = BOOT_MAGIC_UNSET]
                           /\ pc' = "rs_swap_info"
                      ELSE /\ st' = [st EXCEPT !.magic = boot_magic_decode(magic)]
                           /\ pc' = IF boot_magic_decode(magic) = BOOT_MAGIC_GOOD
                                    THEN "rs_heal_magic" ELSE "rs_swap_info"
    /\ UNCHANGED << env, flash, er, bs, wlog, snap >>

\* the legacy magic is decoded and reported, but not put into the status partition
rs_heal_magic_skipped(ok) ==
    /\ pc = "rs_heal_magic"
    /\ Spend(ok)
    /\ IF ~ok
       THEN ReadReturn(BOOT_EFLASH) /\ UNCHANGED rd
       ELSE /\ rd' = [rd EXCEPT !.erase_trailer = 1]
            /\ pc' = "rs_swap_info"
            /\ UNCHANGED << opened, badclose, hist, call >>
    /\ UNCHANGED << env, flash, er, st, bs, wlog, snap >>

\* the legacy magic is put into the status partition
rs_heal_magic(ok) ==
    /\ pc = "rs_heal_magic"
    /\ Spend(ok)
    /\ LET magic == AreaBytes(area, cfg.erased_val, rd.fap, rd.trailer_off, BOOT_MAGIC_SZ)
       IN  IF ~ok
           THEN ReadReturn(BOOT_EFLASH) /\ UNCHANGED << rd, stat, wlog >>
           ELSE /\ Update(rd.fap, rd.off, magic)
                /\ rd' = [rd EXCEPT !.erase_trailer = 1]
                /\ pc' = "rs_swap_info"
                /\ UNCHANGED << opened, badclose, hist, call >>
    /\ UNCHANGED << env, area, er, st, bs, snap >>

\* swap_info: swap type and image number
\* the condition under which the unpacked swap_info is discarded
swap_info_discarded_if_empty(rc, swap_type) == rc = 1

swap_info_discarded(rc, swap_type) == rc = 1 \/ swap_type > BOOT_SWAP_TYPE_REVERT

rs_swap_info(ok) ==
    /\ pc = "rs_swap_info"
    /\ Spend(ok)
    /\ LET off == boot_swap_info_off(rd.fap)
           buf == StatusBytes(stat, cfg.erased_val, rd.fap, off, 1)
           swap_info == buf[1]
           bad == swap_info_discarded(boot_read_data_empty(cfg.erased_val, buf),
                                      BOOT_GET_SWAP_TYPE(swap_info))
       IN  IF ~ok
           THEN ReadReturn(BOOT_EFLASH) /\ UNCHANGED << rd, st >>
           ELSE /\ rd' = [rd EXCEPT !.off = off]
                /\ st' = [st EXCEPT
                            !.swap_type = IF bad THEN BOOT_SWAP_TYPE_NONE
                                          ELSE BOOT_GET_SWAP_TYPE(swap_info),
                            !.image_num = IF bad THEN 0 ELSE BOOT_GET_IMAGE_NUM(swap_info)]
                /\ pc' = "rs_copy_done"
                /\ UNCHANGED << opened, badclose, hist, call >>
    /\ UNCHANGED << env, flash, er, bs, wlog, snap >>

\* copy_done
rs_copy_done(ok) ==
    /\ pc = "rs_copy_done"
    /\ Spend(ok)
    /\ LET off == boot_copy_done_off(rd.fap)
           buf == StatusBytes(stat, cfg.erased_val, rd.fap, off, 1)
       IN  IF ~ok
           THEN ReadReturn(BOOT_EFLASH) /\ UNCHANGED << rd, st >>
           ELSE /\ rd' = [rd EXCEPT !.off = off]
                /\ st' = [st EXCEPT !.copy_done =
                            IF boot_read_data_empty(cfg.erased_val, buf) = 1
                            THEN BOOT_FLAG_UNSET ELSE boot_flag_decode(buf[1])]
                /\ pc' = "rs_image_ok"
                /\ UNCHANGED << opened, badclose, hist, call >>
    /\ UNCHANGED << env, flash, er, bs, wlog, snap >>

\* whether an erased image_ok is looked up in the slot's own area
process_image_ok_always(fa_id, copy_done) == TRUE

\* the legacy image_ok is consulted only by the call that consulted the legacy magic
process_image_ok_with_magic(fa_id, copy_done) ==
    IsUpgradeSlot(fa_id) /\ "magic" \in rd.legacy_read

process_image_ok(fa_id, copy_done) ==
    \/ IsPrimarySlot(fa_id) /\ copy_done = BOOT_FLAG_SET
    \/ IsUpgradeSlot(fa_id)

\* image_ok of the status partition
rs_image_ok(ok) ==
    /\ pc = "rs_image_ok"
    /\ Spend(ok)
    /\ LET off == boot_image_ok_off(rd.fap)
           buf == StatusBytes(stat, cfg.erased_val, rd.fap, off, 1)
       IN  IF ~ok
           THEN ReadReturn(BOOT_EFLASH) /\ UNCHANGED << rd, st >>
           ELSE /\ rd' = [rd EXCEPT !.off = off]
                /\ IF boot_read_data_empty(cfg.erased_val, buf) = 1
                   THEN /\ st' = [st EXCEPT !.image_ok = BOOT_FLAG_UNSET]
                        /\ IF ~(IsPrimarySlot(rd.fap) \/ IsUpgradeSlot(rd.fap))
                           THEN ReadReturn(BOOT_EFLASH)
                           ELSE /\ pc' = IF process_image_ok(rd.fap, st.copy_done)
                                         THEN "rs_legacy_image_ok" ELSE "rs_erase"
                                /\ UNCHANGED << opened, badclose, hist, call >>
                   ELSE /\ st' = [st EXCEPT !.image_ok = boot_flag_decode(buf[1])]
                        /\ pc' = "rs_erase"
                        /\ UNCHANGED << opened, badclose, hist, call >>
    /\ UNCHANGED << env, flash, er, bs, wlog, snap >>

\* image_ok in the slot's own area
rs_legacy_image_ok(ok) ==
    /\ pc = "rs_legacy_image_ok"
    /\ Spend(ok)
    /\ LET trailer_off == fa_size(rd.fap) - BOOT_MAGIC_SZ - BOOT_MAX_ALIGN
           buf == AreaBytes(area, cfg.erased_val, rd.fap, trailer_off, 1)
           empty == boot_read_data_empty(cfg.erased_val, buf) = 1
       IN  /\ rd' = [rd EXCEPT !.trailer_off = trailer_off,
                               !.legacy_read = @ \cup {"image_ok"},
                               !.erase_trailer =
                                   IF ok /\ ~empty /\ boot_flag_decode(buf[1]) = BOOT_FLAG_BAD
                                   THEN 1 ELSE @]
           /\ IF ~ok
              THEN ReadReturn(BOOT_EFLASH) /\ UNCHANGED st
              ELSE /\ UNCHANGED << opened, badclose, hist, call >>
                   /\ IF empty
                      THEN /\ st' = [st EXCEPT !.image_ok = BOOT_FLAG_UNSET]
                           /\ pc' = "rs_erase"
                      ELSE /\ st' = [st EXCEPT !.image_ok = boot_flag_decode(buf[1])]
                           /\ pc' = IF boot_flag_decode(buf[1]) # BOOT_FLAG_BAD
                                    THEN "rs_heal_image_ok" ELSE "rs_erase"
    /\ UNCHANGED << env, flash, er, bs, wlog, snap >>

\* the legacy image_ok is put into the status partition
rs_heal_image_ok(ok) ==
    /\ pc = "rs_heal_image_ok"
    /\ Spend(ok)
    /\ IF ~ok
       THEN ReadReturn(BOOT_EFLASH) /\ UNCHANGED << rd, stat, wlog >>
       ELSE /\ Update(rd.fap, rd.off, << st.image_ok >>)
            /\ rd' = [rd EXCEPT !.erase_trailer = 1]
            /\ pc' = "rs_erase"
            /\ UNCHANGED << opened, badclose, hist, call >>
    /\ UNCHANGED << env, area, er, st, bs, snap >>

\* the final erase of the slot's trailer, and the return
rs_erase(ok) ==
    /\ pc = "rs_erase"
    /\ IF rd.erase_trailer # 0
       THEN /\ Spend(ok)
            /\ IF ok
               THEN /\ area' = AreaErase(area, rd.fap, rd.trailer_off, BOOT_MAGIC_SZ)
                    /\ wlog' = Append(wlog, [kind |-> "erase", fa_id |-> rd.fap,
                                             off |-> rd.trailer_off, len |-> BOOT_MAGIC_SZ])
                    /\ ReadReturnW(0, wlog')
               ELSE /\ ReadReturn(-1)
                    /\ UNCHANGED << area, wlog >>
       ELSE /\ ok
            /\ ReadReturn(0)
            /\ UNCHANGED << area, wlog, faults >>
    /\ UNCHANGED << env, stat, rd, er, st, bs, snap >>

(* ------------------------------------------------------------------ *)
(* Field writers: the one status update each of them issues            *)
(* ------------------------------------------------------------------ *)
\* boot_write_trailer(fap, off, inbuf, inlen)
boot_write_trailer(fap, off, inbuf) == [off |-> off, buf |-> inbuf]

boot_write_magic(fap) == [off |-> boot_magic_off(fap), buf |-> boot_img_magic]

boot_write_swap_info(fap, swap_type, image_num) ==
    boot_write_trailer(fap, boot_swap_info_off(fap),
                       << BOOT_SET_SWAP_INFO(image_num, swap_type) >>)

boot_write_image_ok(fap) ==
    boot_write_trailer(fap, boot_image_ok_off(fap), << BOOT_FLAG_SET >>)

boot_write_copy_done(fap) ==
    boot_write_trailer(fap, boot_copy_done_off(fap), << BOOT_FLAG_SET >>)

boot_write_swap_size(fap, swap_size) ==
    boot_write_trailer(fap, boot_swap_size_off(fap), swap_size)

\* bs->enckey[slot] or bs->enctlv[slot]: the key material of the slot, and in
\* the aligned TLV buffer the padding that follows it
EncBlob(c, slot) ==
    [i \in 1 .. EncKeyWriteLen(c) |-> IF i <= EncKeyStride(c) THEN 160 + slot ELSE 255]

boot_write_enc_key(c, fap, slot) ==
    [off |-> boot_enc_key_off(c, fap, slot), buf |-> EncBlob(c, slot)]

(* ------------------------------------------------------------------ *)
(* Top-level calls                                                     *)
(* ------------------------------------------------------------------ *)
MaxCalls == 2

FieldWriters == << "write_swap_info", "write_copy_done", "write_image_ok",
                   "write_swap_size", "write_magic" >>
IsWriter(name) == \E i \in 1 .. Len(FieldWriters) : FieldWriters[i] = name
Rank(name) == CHOOSE i \in 1 .. Len(FieldWriters) : FieldWriters[i] = name

\* the calls that are not field writers count against MaxCalls
Calls == Cardinality({i \in 1 .. Len(hist) : ~IsWriter(hist[i].name)})


Begin(name, fap, b) ==
    /\ pc = "idle"
    /\ Calls < MaxCalls
    /\ call' = [name |-> name, fap |-> fap]
    /\ bs' = b
    /\ wlog' = << >>
    /\ snap' = [opened |-> opened, badclose |-> badclose, st |-> st, stat |-> stat,
                area |-> area, faults |-> faults]
    /\ er' = NoEr

\* the caller passes the open handle of a slot and its swap-state record
CallReadSwapState(fap) ==
    /\ Begin("read", fap, NoBs)
    /\ rd' = [NoRd EXCEPT !.fap = fap]
    /\ pc' = "rs_open"
    /\ UNCHANGED << env, flash, opened, badclose, st, hist, faults >>

(* ------------------------------------------------------------------ *)
(* swap_status_init                                                    *)
(* ------------------------------------------------------------------ *)
CallSwapStatusInit(fap, b) ==
    /\ Begin("init", fap, b)
    /\ rd' = NoRd
    /\ st' = NoSt
    /\ pc' = "in_read"
    /\ UNCHANGED << env, flash, opened, badclose, hist, faults >>

\* boot_read_swap_state_by_id(FLASH_AREA_IMAGE_SECONDARY(image_index), &swap_state)
\* opens the secondary slot and reads its swap state
in_read(ok) ==
    /\ pc = "in_read"
    /\ Spend(ok)
    /\ IF ok
       THEN /\ Open(FLASH_AREA_IMAGE_SECONDARY(cfg.image_index))
            /\ rd' = [NoRd EXCEPT !.fap = FLASH_AREA_IMAGE_SECONDARY(cfg.image_index)]
            /\ pc' = "rs_open"
       ELSE /\ pc' = "halted"
            /\ UNCHANGED << opened, rd >>
    /\ UNCHANGED << env, flash, badclose, call, er, st, bs, hist, wlog, snap >>

\* one field write of swap_status_init when it is due, and the assert on its result
InitWrite(here, due, w, next, ok) ==
    /\ pc = here
    /\ IF due
       THEN /\ Spend(ok)
            /\ IF ok
               THEN Update(call.fap, w.off, w.buf) /\ pc' = next
               ELSE pc' = "halted" /\ UNCHANGED << stat, wlog >>
       ELSE /\ ok
            /\ pc' = next
            /\ UNCHANGED << stat, wlog, faults >>
    /\ UNCHANGED << env, area, opened, badclose, call, rd, er, st, bs, hist, snap >>

in_swap_info(ok) ==
    InitWrite("in_swap_info", bs.swap_type # BOOT_SWAP_TYPE_NONE,
              boot_write_swap_info(call.fap, bs.swap_type, cfg.image_index),
              "in_image_ok", ok)

in_image_ok(ok) ==
    InitWrite("in_image_ok", st.image_ok = BOOT_FLAG_SET,
              boot_write_image_ok(call.fap), "in_swap_size", ok)

\* mutant: the magic is written where swap_size is due, before the keys
in_swap_size_magic_first(ok) ==
    InitWrite("in_swap_size", TRUE, boot_write_magic(call.fap), "in_enc_key0", ok)

in_swap_size(ok) ==
    InitWrite("in_swap_size", TRUE,
              boot_write_swap_size(call.fap, bs.swap_size), "in_enc_key0", ok)

in_enc_key0(ok) ==
    InitWrite("in_enc_key0", cfg.enc # "off",
              boot_write_enc_key(cfg, call.fap, 0), "in_enc_key1", ok)

in_enc_key1(ok) ==
    InitWrite("in_enc_key1", cfg.enc # "off",
              boot_write_enc_key(cfg, call.fap, 1), "in_magic", ok)

\* mutant: the last write of swap_status_init is swap_size, not the magic
in_magic_not_last(ok) ==
    InitWrite("in_magic", TRUE, boot_write_swap_size(call.fap, bs.swap_size), "in_return", ok)

in_magic(ok) ==
    InitWrite("in_magic", TRUE, boot_write_magic(call.fap), "in_return", ok)

in_return ==
    /\ pc = "in_return"
    /\ Return(0)
    /\ UNCHANGED << env, flash, opened, badclose, rd, er, st, bs, faults, wlog, snap >>

(* ------------------------------------------------------------------ *)
(* Reset                                                               *)
(* ------------------------------------------------------------------ *)
\* a reset or power loss between two flash calls: the flash keeps what was
\* written, everything in RAM is lost.  A failed assert stops the boot the
\* same way.
Reset ==
    /\ pc # "idle"
    /\ Calls < MaxCalls - 1
    /\ pc' = "idle"
    /\ hist' = Append(hist, Ended("reset", 0, stat, wlog))
    /\ call' = NoCall
    /\ opened' = [a \in AreaIds |-> 0]
    /\ badclose' = 0
    /\ rd' = NoRd
    /\ er' = NoEr
    /\ st' = NoSt
    /\ UNCHANGED << env, flash, bs, faults, wlog, snap >>

(* ------------------------------------------------------------------ *)
(* Initial states                                                      *)
(* ------------------------------------------------------------------ *)
\* BOOT_ENC_TLV_SIZE of the key-wrap and of the EC256 key exchange
TlvSizes == {24, 113}
EncBuilds ==
    {[enc |-> "off", tlv_size |-> 0], [enc |-> "key", tlv_size |-> 0]}
        \cup {[enc |-> "tlv", tlv_size |-> n] : n \in TlvSizes}

\* the targets: the flash's erased value and the image the boot works on
Boards == {[erased_val |-> 255, image_index |-> 0], [erased_val |-> 0, image_index |-> 1]}

Builds(boards, encs, scratches) ==
    {[erased_val |-> b.erased_val, enc |-> e.enc, tlv_size |-> e.tlv_size, scratch |-> sc,
      image_index |-> b.image_index, raw |-> BOOT_SWAP_STATUS_D_SIZE_RAW] : b \in boards, e \in encs, sc \in scratches}

\* what the tail of a slot holds: the legacy magic (erased, the canonical
\* pattern, or its second half only) and the legacy image_ok byte
LegacyMagics == {"erased", "good", "bad"}
LegacyFlags == {"erased", "set", "bad"}

SlotTail(ev, m, o) ==
    LET magic == CASE m = "good" -> boot_img_magic
                   [] m = "bad" -> [i \in 1 .. BOOT_MAGIC_SZ |->
                                       IF i > BOOT_MAX_ALIGN THEN boot_img_magic[i] ELSE ev]
                   [] OTHER -> [i \in 1 .. BOOT_MAGIC_SZ |-> ev]
        flag == CASE o = "set" -> BOOT_FLAG_SET
                  [] o = "bad" -> BOOT_FLAG_BAD
                  [] OTHER -> ev
    IN  FlashStore(FlashStore(Erased, ev, SlotSize - BOOT_MAGIC_SZ, magic),
                   ev, SlotSize - BOOT_MAGIC_SZ - BOOT_MAX_ALIGN, << flag >>)

\* the slot areas in which the slots of T hold a legacy trailer
Areas(ev, T, ms, os) ==
    {[f \in Slots |-> IF f \in T THEN SlotTail(ev, m[f], o[f]) ELSE SlotTail(ev, "erased", "erased")] :
        m \in [T -> ms], o \in [T -> os]}

\* status sectors: k sectors of the same size
Uniform(k) == [i \in 1 .. k |-> BOOT_SWAP_STATUS_SIZE \div k]

\* a used status partition: the sub-areas of the two slots of the current
\* image hold no erased byte
DirtyByte == 85
Dirty(c) ==
    [p \in UNION {{swap_status_init_offset(f) + i : i \in 0 .. BOOT_SWAP_STATUS_SIZE - 1} :
                    f \in {FLASH_AREA_IMAGE_PRIMARY(c.image_index),
                           FLASH_AREA_IMAGE_SECONDARY(c.image_index)}} |-> DirtyByte]
DirtyTail == [p \in 0 .. SlotSize - 1 |-> DirtyByte]

\* nothing runs, no handle is open, the caller's records are not filled in
InitRam(geos, nfaults) ==
    /\ sectors \in geos
    /\ opened = [a \in AreaIds |-> 0]
    /\ badclose = 0
    /\ pc = "idle"
    /\ call = NoCall
    /\ rd = NoRd
    /\ er = NoEr
    /\ st = NoSt
    /\ bs = NoBs
    /\ hist = << >>
    /\ faults \in nfaults
    /\ wlog = << >>
    /\ snap = [opened |-> opened, badclose |-> 0, st |-> NoSt, stat |-> stat,
               area |-> area, faults |-> faults]

InitWith(builds, T, ms, os, geos, nfaults) ==
    /\ cfg \in builds
    /\ stat = Erased
    /\ area \in Areas(cfg.erased_val, T, ms, os)
    /\ InitRam(geos, nfaults)

(* ------------------------------------------------------------------ *)
(* Specification: a swap is initialised, with resets                   *)
(* ------------------------------------------------------------------ *)
SwapTypes == {BOOT_SWAP_TYPE_NONE, BOOT_SWAP_TYPE_TEST, BOOT_SWAP_TYPE_PERM,
              BOOT_SWAP_TYPE_REVERT}
SwapSizes == {U32Bytes(4660)}

InitInputs == {[NoBs EXCEPT !.swap_type = t, !.swap_size = n] : t \in SwapTypes, n \in SwapSizes}

Init ==
    /\ InitWith(Builds(Boards, EncBuilds, {FALSE}),
                {FLASH_AREA_IMAGE_1, FLASH_AREA_IMAGE_3}, {"erased", "good"}, LegacyFlags,
                {Uniform(1)}, {0})
    /\ area[FLASH_AREA_IMAGE_SECONDARY(1 - cfg.image_index)] = Erased

ReadStep ==
    \E ok \in Outcomes :
        \/ rs_open(ok)
        \/ rs_magic(ok)
        \/ rs_legacy_magic(ok)
        \/ rs_heal_magic(ok)
        \/ rs_swap_info(ok)
        \/ rs_copy_done(ok)
        \/ rs_image_ok(ok)
        \/ rs_legacy_image_ok(ok)
        \/ rs_heal_image_ok(ok)
        \/ rs_erase(ok)

InitStep ==
    \/ \E ok \in Outcomes :
        \/ in_read(ok)
        \/ in_swap_info(ok)
        \/ in_image_ok(ok)
        \/ in_swap_size(ok)
        \/ in_enc_key0(ok)
        \/ in_enc_key1(ok)
        \/ in_magic(ok)
    \/ in_return

\* swap_status_init seeds the status of the primary slot of the current image
StartInit ==
    \E b \in InitInputs :
        /\ Len(hist) > 0 => b = hist[1].bs
        /\ CallSwapStatusInit(FLASH_AREA_IMAGE_PRIMARY(cfg.image_index), b)

\* the swap state of the slot that was initialised is read
StartReadInit ==
    /\ Len(hist) > 0
    /\ CallReadSwapState(hist[1].fap)

Next == StartInit \/ StartReadInit \/ ReadStep \/ InitStep \/ Reset

Spec == Init /\ [][Next]_vars

(* ------------------------------------------------------------------ *)
(* The field writers as calls of their own                             *)
(* ------------------------------------------------------------------ *)
\* A record is written field by field into the erased status sub-area of one
\* slot of the current image, every field at most once, the magic last.
CanWrite(name, fap) ==
    /\ pc = "idle"
    /\ fap \in {FLASH_AREA_IMAGE_PRIMARY(cfg.image_index),
                FLASH_AREA_IMAGE_SECONDARY(cfg.image_index)}
    /\ \A i \in 1 .. Len(hist) :
          /\ IsWriter(hist[i].name)
          /\ hist[i].fap = fap
          /\ Rank(hist[i].name) < Rank(name)

\* the writer issues its one status update and returns 0, or BOOT_EFLASH when
\* the update fails
WriteCall(name, fap, b, w) ==
    /\ CanWrite(name, fap)
    /\ \E ok \in Outcomes :
          /\ Spend(ok)
          /\ stat' = IF ok THEN StatusStore(stat, cfg.erased_val, fap, w.off, w.buf) ELSE stat
          /\ wlog' = IF ok
                     THEN << [kind |-> "update", fa_id |-> fap, off |-> w.off,
                              len |-> Len(w.buf)] >>
                     ELSE << >>
          /\ hist' = Append(hist, [name |-> name, fap |-> fap, bs |-> b, end |-> "ret",
                                   rc |-> IF ok THEN 0 ELSE BOOT_EFLASH, at |-> "idle",
                                   rec |-> SubArea(stat', fap), w |-> wlog',
                                   pre |-> [stat |-> stat, area |-> area]])
    /\ bs' = b
    /\ snap' = [opened |-> opened, badclose |-> badclose, st |-> st, stat |-> stat,
                area |-> area, faults |-> faults]
    /\ UNCHANGED << env, area, opened, badclose, pc, call, rd, er, st >>

WriteMagic(fap) == WriteCall("write_magic", fap, NoBs, boot_write_magic(fap))

WriteSwapInfo(fap, swap_type, image_num) ==
    WriteCall("write_swap_info", fap,
              [NoBs EXCEPT !.swap_type = swap_type, !.image_num = image_num],
              boot_write_swap_info(fap, swap_type, image_num))

WriteImageOk(fap) == WriteCall("write_image_ok", fap, NoBs, boot_write_image_ok(fap))

WriteCopyDone(fap) == WriteCall("write_copy_done", fap, NoBs, boot_write_copy_done(fap))

WriteSwapSize(fap, swap_size) ==
    WriteCall("write_swap_size", fap, [NoBs EXCEPT !.swap_size = swap_size],
              boot_write_swap_size(fap, swap_size))

(* ------------------------------------------------------------------ *)
(* boot_find_status and boot_read_swap_size                            *)
(* ------------------------------------------------------------------ *)
CallReadSwapSize(image_index) ==
    /\ Begin("read_swap_size", FLASH_AREA_IMAGE_PRIMARY(image_index), NoBs)
    /\ pc' = "fs_open"
    /\ UNCHANGED << env, flash, opened, badclose, rd, st, hist, faults >>

\* boot_find_status: flash_area_open(area, fap)
fs_open(ok) ==
    /\ pc = "fs_open"
    /\ Spend(ok)
    /\ IF ok
       THEN /\ Open(call.fap)
            /\ pc' = "fs_retrieve"
            /\ UNCHANGED << hist, call, er >>
       ELSE /\ Return(-1)
            /\ er' = [er EXCEPT !.rc = -1]
            /\ UNCHANGED opened
    /\ UNCHANGED << env, flash, badclose, rd, st, bs, wlog, snap >>

\* what boot_find_status returns after the retrieve ended with rc and left the
\* bytes magic in its buffer
boot_find_status(rc, magic) ==
    IF rc = 0
    THEN IF MagicEqual(magic) THEN 0 ELSE rc
    ELSE rc

\* boot_find_status: the magic is retrieved and compared, the area is closed;
\* boot_read_swap_size goes on when the result is 0
fs_retrieve(ok) ==
    /\ pc = "fs_retrieve"
    /\ Spend(ok)
    /\ LET off == boot_magic_off(call.fap)
           magic == StatusBytes(stat, cfg.erased_val, call.fap, off, BOOT_MAGIC_SZ)
           rc == boot_find_status(IF ok THEN 0 ELSE -1, magic)
       IN  /\ er' = [er EXCEPT !.rc = rc]
           /\ Close(call.fap)
           /\ IF rc = 0
              THEN pc' = "rss_retrieve" /\ UNCHANGED << hist, call >>
              ELSE Return(rc)
    /\ UNCHANGED << env, flash, rd, st, bs, wlog, snap >>

\* boot_read_swap_size: swap_size is retrieved into the caller's variable
rss_retrieve(ok) ==
    /\ pc = "rss_retrieve"
    /\ Spend(ok)
    /\ bs' = IF ok
             THEN [bs EXCEPT !.swap_size =
                      StatusBytes(stat, cfg.erased_val, call.fap,
                                  boot_swap_size_off(call.fap), 4)]
             ELSE bs
    /\ pc' = "idle"
    /\ hist' = Append(hist, [Ended("ret", IF ok THEN 0 ELSE -1, stat, wlog) EXCEPT !.bs = bs'])
    /\ call' = NoCall
    /\ UNCHANGED << env, flash, opened, badclose, rd, er, st, wlog, snap >>

SizeStep == \E ok \in Outcomes : fs_open(ok) \/ fs_retrieve(ok) \/ rss_retrieve(ok)

(* ------------------------------------------------------------------ *)
(* swap_erase_trailer_sectors                                          *)
(* ------------------------------------------------------------------ *)
\* state->status.sectors[sector], sector counted from 0: its fs_size and its
\* fs_off relative to the first sector.  The array has Len(sectors) elements;
\* an index outside of it reads whatever lies next to the array.
MaxOob == 1
SectorOff(sector) ==
    LET RECURSIVE Sum(_)
        Sum(i) == IF i = 0 THEN 0 ELSE sectors[i] + Sum(i - 1)
    IN  Sum(sector)
OutsideSectors ==
    {[fs_size |-> 0, fs_off |-> 0],
     [fs_size |-> BOOT_SWAP_STATUS_SIZE \div 4, fs_off |-> 0],
     [fs_size |-> BOOT_SWAP_STATUS_SIZE, fs_off |-> BOOT_SWAP_STATUS_SIZE]}
StatusSector(sector) ==
    IF sector >= 0 /\ sector < Len(sectors)
    THEN {[fs_size |-> sectors[sector + 1], fs_off |-> SectorOff(sector)]}
    ELSE OutsideSectors

boot_status_sector_size(sec) == sec.fs_size
boot_status_sector_off(sec) == sec.fs_off - SectorOff(0)
boot_status_num_sectors == BOOT_SWAP_STATUS_SIZE \div sectors[1]

CallEraseTrailer(fap) ==
    /\ Begin("erase", fap, NoBs)
    /\ pc' = "et_open"
    /\ UNCHANGED << env, flash, opened, badclose, rd, st, hist, faults >>

\* the status partition is opened, the slot is checked against the two slots
\* of the current image and the walk is set up at the last sector
et_open(ok) ==
    /\ pc = "et_open"
    /\ Spend(ok)
    /\ IF ~ok
       THEN Return(BOOT_EFLASH) /\ UNCHANGED << opened, er >>
       ELSE /\ Open(FLASH_AREA_IMAGE_SWAP_STATUS)
            /\ IF /\ call.fap # FLASH_AREA_IMAGE_PRIMARY(cfg.image_index)
                  /\ call.fap # FLASH_AREA_IMAGE_SECONDARY(cfg.image_index)
               THEN Return(BOOT_EFLASH) /\ UNCHANGED er
               ELSE /\ er' = [er EXCEPT !.sub_offs = swap_status_init_offset(call.fap),
                                        !.sector = boot_status_num_sectors - 1,
                                        !.total_sz = 0]
                    /\ pc' = "et_loop"
                    /\ UNCHANGED << hist, call >>
    /\ UNCHANGED << env, flash, badclose, rd, st, bs, wlog, snap >>

\* one round of the do-while loop: the sector is erased, sector is decremented
\* (a uint32_t: the value -k stands for 2^32 - k) and its size is accumulated;
\* a failed erase fails the assert
et_loop(ok) ==
    /\ pc = "et_loop"
    /\ er.sector >= 0 - MaxOob
    /\ Spend(ok)
    /\ \E sec \in StatusSector(er.sector) :
          LET sz == boot_status_sector_size(sec)
              off == boot_status_sector_off(sec) + er.sub_offs
          IN  IF ~ok
              THEN pc' = "halted" /\ UNCHANGED << stat, wlog, er >>
              ELSE /\ stat' = FlashErase(stat, off, sz)
                   /\ wlog' = Append(wlog, [kind |-> "erase",
                                            fa_id |-> FLASH_AREA_IMAGE_SWAP_STATUS,
                                            off |-> off, len |-> sz])
                   /\ er' = [er EXCEPT !.sector = @ - 1, !.total_sz = @ + sz]
                   /\ pc' = IF er.total_sz + sz < BOOT_SWAP_STATUS_SIZE
                            THEN "et_loop" ELSE "et_slot"
    /\ UNCHANGED << env, area, opened, badclose, call, rd, st, bs, hist, snap >>

\* the trailer at the end of the slot's own area is erased, the status
\* partition is closed
et_slot(ok) ==
    /\ pc = "et_slot"
    /\ Spend(ok)
    /\ LET trailer_offs == fa_size(call.fap) - BOOT_SWAP_STATUS_TRAILER_SIZE
       IN  IF ok
           THEN /\ area' = AreaErase(area, call.fap, trailer_offs,
                                     BOOT_SWAP_STATUS_TRAILER_SIZE)
                /\ wlog' = Append(wlog, [kind |-> "erase", fa_id |-> call.fap,
                                         off |-> trailer_offs,
                                         len |-> BOOT_SWAP_STATUS_TRAILER_SIZE])
                /\ ReturnS(0, stat, wlog')
           ELSE Return(-1) /\ UNCHANGED << area, wlog >>
    /\ Close(FLASH_AREA_IMAGE_SWAP_STATUS)
    /\ UNCHANGED << env, stat, rd, er, st, bs, snap >>

EraseStep == \E ok \in Outcomes : et_open(ok) \/ et_loop(ok) \/ et_slot(ok)

(* ------------------------------------------------------------------ *)
(* boot_write_status                                                   *)
(* ------------------------------------------------------------------ *)
\* offset of the progress byte of bs inside the status bytes
boot_status_internal_off(b, elem_sz) == (b.idx - 1) * elem_sz

\* the area the status is written to
WriteStatusArea(b) ==
    IF cfg.scratch /\ b.use_scratch
    THEN FLASH_AREA_IMAGE_SCRATCH
    ELSE FLASH_AREA_IMAGE_PRIMARY(cfg.image_index)

CallWriteStatus(b) ==
    /\ Begin("write_status", WriteStatusArea(b), b)
    /\ pc' = "ws_open"
    /\ UNCHANGED << env, flash, opened, badclose, rd, st, hist, faults >>

\* flash_area_open(area_id, &fap); when it fails the function goes to done and
\* closes fap, which was never assigned: whatever handle the stack held
ws_open(ok) ==
    /\ pc = "ws_open"
    /\ Spend(ok)
    /\ IF ok
       THEN /\ Open(call.fap)
            /\ pc' = "ws_update"
            /\ UNCHANGED << badclose, hist, call >>
       ELSE /\ \E h \in AreaIds : Close(h)
            /\ Return(BOOT_EFLASH)
    /\ UNCHANGED << env, flash, rd, er, st, bs, wlog, snap >>

\* the progress byte is put at its offset, the area is closed
ws_update(ok) ==
    /\ pc = "ws_update"
    /\ Spend(ok)
    /\ LET off == boot_status_off(call.fap) + boot_status_internal_off(bs, 1)
           tmp_state == IF bs.op = BOOT_STATUS_OP_MOVE THEN bs.state ELSE (bs.state + 1) % 256
       IN  IF ok
           THEN /\ Update(call.fap, off, << tmp_state >>)
                /\ ReturnS(0, stat', wlog')
           ELSE /\ Return(BOOT_EFLASH)
                /\ UNCHANGED << stat, wlog >>
    /\ Close(call.fap)
    /\ UNCHANGED << env, area, rd, er, st, bs, snap >>

WriteStatusStep == \E ok \in Outcomes : ws_open(ok) \/ ws_update(ok)

(* ------------------------------------------------------------------ *)
(* swap_read_status                                                    *)
(* ------------------------------------------------------------------ *)
\* bs->source = swap_status_source(state): the caller's policy decides
CallSwapReadStatus(source) ==
    /\ Begin("read_status", FLASH_AREA_IMAGE_PRIMARY(cfg.image_index),
             [NoBs EXCEPT !.source = source, !.swap_type = 0])
    /\ pc' = "sr_source"
    /\ UNCHANGED << env, flash, opened, badclose, rd, st, hist, faults >>

\* the switch on bs->source; any source but NONE and PRIMARY_SLOT fails the assert
sr_source ==
    /\ pc = "sr_source"
    /\ IF bs.source = BOOT_STATUS_SOURCE_NONE
       THEN Return(0)
       ELSE /\ pc' = IF bs.source = BOOT_STATUS_SOURCE_PRIMARY_SLOT
                     THEN "sr_open_slot" ELSE "halted"
            /\ UNCHANGED << hist, call >>
    /\ UNCHANGED << env, flash, opened, badclose, rd, er, st, bs, faults, wlog, snap >>

\* flash_area_open(area_id, &fap)
sr_open_slot(ok) ==
    /\ pc = "sr_open_slot"
    /\ Spend(ok)
    /\ IF ok
       THEN /\ Open(call.fap)
            /\ pc' = "sr_open_stat"
            /\ UNCHANGED << hist, call >>
       ELSE Return(BOOT_EFLASH) /\ UNCHANGED opened
    /\ UNCHANGED << env, flash, badclose, rd, er, st, bs, wlog, snap >>

\* flash_area_open(FLASH_AREA_IMAGE_SWAP_STATUS, &fap_stat)
sr_open_stat(ok) ==
    /\ pc = "sr_open_stat"
    /\ Spend(ok)
    /\ IF ok
       THEN /\ Open(FLASH_AREA_IMAGE_SWAP_STATUS)
            /\ pc' = "sr_bytes"
            /\ UNCHANGED << hist, call >>
       ELSE Return(BOOT_EFLASH) /\ UNCHANGED opened
    /\ UNCHANGED << env, flash, badclose, rd, er, st, bs, wlog, snap >>

\* swap_read_status_bytes(fap, state, bs): the progress byte is read into bs;
\* when it fails the two areas are closed and its result is returned
sr_bytes(ok) ==
    /\ pc = "sr_bytes"
    /\ Spend(ok)
    /\ LET b == StatusBytes(stat, cfg.erased_val, call.fap, boot_status_off(call.fap), 1)
       IN  IF ok
           THEN /\ bs' = IF boot_read_data_empty(cfg.erased_val, b) = 1
                         THEN bs ELSE [bs EXCEPT !.state = b[1]]
                /\ pc' = "sr_swap_info"
                /\ UNCHANGED << opened, badclose, hist, call >>
           ELSE /\ opened' = [opened EXCEPT ![call.fap] = @ - 1,
                                            ![FLASH_AREA_IMAGE_SWAP_STATUS] = @ - 1]
                /\ Return(BOOT_EFLASH)
                /\ UNCHANGED << bs, badclose >>
    /\ UNCHANGED << env, flash, rd, er, st, wlog, snap >>

\* what the local swap_info holds after a retrieve that failed: it was never
\* assigned
Unassigned == {cfg.erased_val, BOOT_SET_SWAP_INFO(0, BOOT_SWAP_TYPE_TEST),
               BOOT_SET_SWAP_INFO(2, 15)}

\* swap_info is retrieved, the result of the retrieve is overwritten by the
\* result of boot_read_data_empty, the swap type is extracted and the two
\* areas are closed
sr_swap_info(ok) ==
    /\ pc = "sr_swap_info"
    /\ Spend(ok)
    /\ \E garbage \in Unassigned :
          LET off == boot_swap_info_off(call.fap)
              swap_info == IF ok THEN StatusBytes(stat, cfg.erased_val, call.fap, off, 1)[1]
                           ELSE garbage
              rc == boot_read_data_empty(cfg.erased_val, << swap_info >>)
              info == IF rc = 1 THEN BOOT_SET_SWAP_INFO(0, BOOT_SWAP_TYPE_NONE) ELSE swap_info
          IN  /\ bs' = [bs EXCEPT !.swap_type = BOOT_GET_SWAP_TYPE(info)]
              /\ pc' = "idle"
              /\ hist' = Append(hist, [Ended("ret", 0, stat, wlog) EXCEPT !.bs = bs'])
              /\ call' = NoCall
    /\ opened' = [opened EXCEPT ![call.fap] = @ - 1,
                                ![FLASH_AREA_IMAGE_SWAP_STATUS] = @ - 1]
    /\ UNCHANGED << env, flash, badclose, rd, er, st, wlog, snap >>

ReadStatusStep ==
    \/ sr_source
    \/ \E ok \in Outcomes : sr_open_slot(ok) \/ sr_open_stat(ok) \/ sr_bytes(ok) \/ sr_swap_info(ok)

(* ------------------------------------------------------------------ *)
(* Specification: a record is written field by field and read back     *)
(* ------------------------------------------------------------------ *)
ImageSlots == {FLASH_AREA_IMAGE_PRIMARY(cfg.image_index),
               FLASH_AREA_IMAGE_SECONDARY(cfg.image_index)}
RTSwapSizes == {U32Bytes(4660), U32Bytes(2147483647)}
RTImageNums == {0, 1}

InitRT ==
    /\ InitWith(Builds(Boards, {[enc |-> "off", tlv_size |-> 0]}, {FALSE}),
                Slots, LegacyMagics, {"erased", "set"}, {Uniform(1)}, {0})
    /\ \A f \in Slots \ ImageSlots : area[f] = Erased
    /\ area[FLASH_AREA_IMAGE_PRIMARY(cfg.image_index)]
          \in {SlotTail(cfg.erased_val, "erased", o) : o \in {"erased", "set"}}

WriteField ==
    \E fap \in Slots :
        \/ \E t \in SwapTypes, n \in RTImageNums : WriteSwapInfo(fap, t, n)
        \/ WriteCopyDone(fap)
        \/ WriteImageOk(fap)
        \/ \E n \in RTSwapSizes : WriteSwapSize(fap, n)
        \/ WriteMagic(fap)

\* the slot the record was written for is read back
StartReadRT ==
    \E fap \in ImageSlots :
        /\ Len(hist) > 0 => fap = hist[1].fap
        /\ \A i \in 1 .. Len(hist) : hist[i].name # "read"
        /\ CallReadSwapState(fap)

StartReadSize ==
    /\ \A i \in 1 .. Len(hist) : hist[i].name # "read_swap_size"
    /\ CallReadSwapSize(cfg.image_index)

NextRT == WriteField \/ StartReadRT \/ StartReadSize \/ ReadStep \/ SizeStep

SpecRT == InitRT /\ [][NextRT]_vars

(* ------------------------------------------------------------------ *)
(* Specification: swap states are read, with resets                    *)
(* ------------------------------------------------------------------ *)
InitRead ==
    /\ InitWith(Builds(Boards, {[enc |-> "off", tlv_size |-> 0]}, {FALSE}),
                Slots, LegacyMagics, LegacyFlags, {Uniform(1)}, {0})
    /\ \A f \in Slots \ ImageSlots : area[f] = Erased
    /\ area[FLASH_AREA_IMAGE_PRIMARY(cfg.image_index)]
          \in {SlotTail(cfg.erased_val, "erased", "erased"),
               SlotTail(cfg.erased_val, "good", "set")}

StartRead == \E fap \in ImageSlots : CallReadSwapState(fap)

NextRead == StartRead \/ ReadStep \/ Reset

SpecRead == InitRead /\ [][NextRead]_vars

(* ------------------------------------------------------------------ *)
(* Specification: reads of the upgrade slot, cut by resets             *)
(* ------------------------------------------------------------------ *)
\* what the status sub-area of slot f holds before the read: nothing, the
\* magic only, or image_ok only
HealRecords(c, f) ==
    LET w1 == boot_write_magic(f)
        w2 == boot_write_image_ok(f)
    IN  {Erased,
         StatusStore(Erased, c.erased_val, f, w1.off, w1.buf),
         StatusStore(Erased, c.erased_val, f, w2.off, w2.buf)}

InitHeal ==
    /\ cfg \in Builds(Boards, {[enc |-> "off", tlv_size |-> 0]}, {FALSE})
    /\ stat \in HealRecords(cfg, FLASH_AREA_IMAGE_SECONDARY(cfg.image_index))
    /\ area \in {[f \in Slots |-> IF f = FLASH_AREA_IMAGE_SECONDARY(cfg.image_index)
                                  THEN t ELSE Erased] :
                    t \in {SlotTail(cfg.erased_val, m, o) : m \in LegacyMagics, o \in LegacyFlags}}
    /\ InitRam({Uniform(1)}, {0})

StartHeal == CallReadSwapState(FLASH_AREA_IMAGE_SECONDARY(cfg.image_index))

NextHeal == StartHeal \/ ReadStep \/ Reset

SpecHeal == InitHeal /\ [][NextHeal]_vars

(* ------------------------------------------------------------------ *)
(* Specification: a used status region is erased                       *)
(* ------------------------------------------------------------------ *)
\* status sector geometries whose sizes sum to BOOT_SWAP_STATUS_SIZE
Geometries ==
    {Uniform(1), Uniform(2), Uniform(4),
     << 90, 92, 90 >>, << 136, 68, 68 >>, << 68, 68, 136 >>}

\* the caller's slots hold data up to their last byte
InitErase ==
    /\ cfg \in Builds(Boards, {[enc |-> "off", tlv_size |-> 0]}, {FALSE})
    /\ stat = Dirty(cfg)
    /\ area = [f \in Slots |-> DirtyTail]
    /\ InitRam(Geometries, {0})

StartErase == \E fap \in StatusAreas : CallEraseTrailer(fap)

NextErase == StartErase \/ EraseStep \/ Reset

SpecErase == InitErase /\ [][NextErase]_vars

(* ------------------------------------------------------------------ *)
(* Specification: the operations run on a flash whose calls can fail   *)
(* ------------------------------------------------------------------ *)
MaxFaults == 1

\* a committed record of a permanent swap in the status sub-area of slot f
RecordFor(c, f) ==
    LET w1 == boot_write_swap_info(f, BOOT_SWAP_TYPE_PERM, c.image_index)
        w2 == boot_write_magic(f)
    IN  StatusStore(StatusStore(Erased, c.erased_val, f, w1.off, w1.buf),
                    c.erased_val, f, w2.off, w2.buf)

\* a committed record whose swap_info byte holds a swap type past REVERT
StrayRecord(c, f) ==
    LET w2 == boot_write_magic(f)
    IN  StatusStore(StatusStore(Erased, c.erased_val, f, boot_swap_info_off(f),
                                << BOOT_SET_SWAP_INFO(1, BOOT_SWAP_TYPE_REVERT + 1) >>),
                    c.erased_val, f, w2.off, w2.buf)

InitOps ==
    /\ cfg \in Builds(Boards, {[enc |-> "off", tlv_size |-> 0]}, {FALSE, TRUE})
    /\ stat \in {Erased, RecordFor(cfg, FLASH_AREA_IMAGE_PRIMARY(cfg.image_index)),
                 StrayRecord(cfg, FLASH_AREA_IMAGE_PRIMARY(cfg.image_index))}
    /\ area \in {[f \in Slots |-> IF f = FLASH_AREA_IMAGE_SECONDARY(cfg.image_index)
                                  THEN t ELSE Erased] :
                    t \in {Erased, SlotTail(cfg.erased_val, "good", "set")}}
    /\ InitRam({Uniform(2)}, {MaxFaults})

WriteStatusInputs ==
    {[NoBs EXCEPT !.op = o, !.state = n, !.use_scratch = u] :
        o \in {BOOT_STATUS_OP_MOVE, BOOT_STATUS_OP_SWAP}, n \in {1, 255}, u \in BOOLEAN}

StatusSources == BOOT_STATUS_SOURCE_NONE .. BOOT_STATUS_SOURCE_PRIMARY_SLOT

StartOp ==
    \/ \E fap \in StatusAreas : CallReadSwapState(fap)
    \/ CallReadSwapSize(cfg.image_index)
    \/ \E b \in WriteStatusInputs : CallWriteStatus(b)
    \/ \E fap \in StatusAreas : CallEraseTrailer(fap)
    \/ \E source \in StatusSources : CallSwapReadStatus(source)

NextOps ==
    \/ StartOp
    \/ ReadStep
    \/ SizeStep
    \/ WriteStatusStep
    \/ EraseStep
    \/ ReadStatusStep
    \/ Reset

SpecOps == InitOps /\ [][NextOps]_vars

(* ------------------------------------------------------------------ *)
(* Specification: the offset functions are called                      *)
(* ------------------------------------------------------------------ *)
\* the raw sizes of the region: from the size of the fixed trailer fields
\* (magic, image_ok, copy_done, swap_info, swap_size) up to MaxRaw
MaxRaw == 48
MinRaw == BOOT_MAGIC_SZ + 3 + 4

InitOff ==
    /\ cfg \in {[b EXCEPT !.raw = r] :
                   b \in Builds(Boards, EncBuilds, {FALSE}), r \in MinRaw .. MaxRaw}
    /\ stat = Erased
    /\ area = [f \in Slots |-> Erased]
    /\ InitRam(Geometries, {0})

\* an offset function is called with the handle of area fap and returns v, a
\* uint32_t; a value -k stands for 2^32 - k
OffsetOf(name, fap, b, v) ==
    /\ pc = "idle"
    /\ call' = [name |-> name, fap |-> fap]
    /\ rd' = [NoRd EXCEPT !.fap = fap, !.off = v]
    /\ bs' = b
    /\ UNCHANGED << env, flash, opened, badclose, pc, er, st, hist, faults, wlog, snap >>

CallMagicOff(fap) == OffsetOf("boot_magic_off", fap, NoBs, boot_magic_off(fap))
CallImageOkOff(fap) == OffsetOf("boot_image_ok_off", fap, NoBs, boot_image_ok_off(fap))
CallCopyDoneOff(fap) == OffsetOf("boot_copy_done_off", fap, NoBs, boot_copy_done_off(fap))
CallSwapInfoOff(fap) == OffsetOf("boot_swap_info_off", fap, NoBs, boot_swap_info_off(fap))
CallSwapSizeOff(fap) == OffsetOf("boot_swap_size_off", fap, NoBs, boot_swap_size_off(fap))
CallStatusOff(fap) == OffsetOf("boot_status_off", fap, NoBs, boot_status_off(fap))
CallEncKeyOff(fap, slot) ==
    /\ cfg.enc # "off"
    /\ OffsetOf("boot_enc_key_off", fap, [NoBs EXCEPT !.slot = slot],
                boot_enc_key_off(cfg, fap, slot))

NextOff ==
    \E fap \in AreaIds :
        \/ CallMagicOff(fap)
        \/ CallImageOkOff(fap)
        \/ CallCopyDoneOff(fap)
        \/ CallSwapInfoOff(fap)
        \/ CallSwapSizeOff(fap)
        \/ CallStatusOff(fap)
        \/ \E slot \in {0, 1} : CallEncKeyOff(fap, slot)

SpecOff == InitOff /\ [][NextOff]_vars

(* ------------------------------------------------------------------ *)
(* Properties                                                          *)
(* ------------------------------------------------------------------ *)
\* the bytes of a field of the status sub-area of slot f in the status partition s
Field(s, f, off, len) == StatusBytes(s, cfg.erased_val, f, off, len)
MagicField(s, f) == Field(s, f, boot_magic_off(f), BOOT_MAGIC_SZ)
ImageOkField(s, f) == Field(s, f, boot_image_ok_off(f), 1)[1]
SwapInfoField(s, f) == Field(s, f, boot_swap_info_off(f), 1)[1]
SwapSizeField(s, f) == Field(s, f, boot_swap_size_off(f), 4)
KeyField(s, f, slot) == Field(s, f, boot_enc_key_off(cfg, f, slot), EncKeyStride(cfg))
KeyMaterial(slot) == [i \in 1 .. EncKeyStride(cfg) |-> 160 + slot]
IsErased(buf) == \A i \in 1 .. Len(buf) : buf[i] = cfg.erased_val
IsMagicWrite(w, f) ==
    w.kind = "update" /\ w.fa_id = f /\ w.off = boot_magic_off(f) /\ w.len = BOOT_MAGIC_SZ

\* a swap_status_init that was cut by a reset before its boot_write_magic call
\* is followed by a complete boot_read_swap_state of the same slot
CutInitThenRead ==
    /\ pc = "idle"
    /\ Len(hist) = 2
    /\ hist[1].name = "init" /\ hist[1].end = "reset" /\ hist[1].at # "in_return"
    /\ hist[2].name = "read" /\ hist[2].end = "ret" /\ hist[2].fap = hist[1].fap

\* C1: after a swap_status_init on an erased status region that a reset cut
\* before the magic write, boot_read_swap_state on that slot succeeds and
\* reports magic = UNSET, whatever fields the init had already written.
C1_TruncatedInitReadsUnset ==
    CutInitThenRead => hist[2].rc = 0 /\ st.magic = BOOT_MAGIC_UNSET

\* the cut came right before the magic write, with the keys already written
C1_Witness ==
    /\ CutInitThenRead
    /\ hist[1].at = "in_magic"
    /\ cfg.enc # "off"
    /\ Len(hist[1].w) >= 4
    /\ st.magic = BOOT_MAGIC_UNSET

\* the first swap_status_init is running, was cut, or has returned
FirstInit ==
    \/ Len(hist) = 0 /\ call.name = "init"
    \/ Len(hist) = 1 /\ pc = "idle" /\ hist[1].name = "init"
FirstInitSlot == IF Len(hist) = 0 THEN call.fap ELSE hist[1].fap

\* C2: in swap_status_init the magic write is the last flash write, and
\* whenever the magic of the slot is in the status partition the record is
\* complete: swap_size, swap_info (type not NONE), image_ok (when the
\* secondary slot has it) and both keys (when enabled) hold what was asked.
C2_MagicCommitsRecord ==
    FirstInit =>
        LET f == FirstInitSlot
        IN  /\ \A i \in 1 .. Len(wlog) : IsMagicWrite(wlog[i], f) => i = Len(wlog)
            /\ MagicEqual(MagicField(stat, f)) =>
                /\ SwapSizeField(stat, f) = bs.swap_size
                /\ bs.swap_type # BOOT_SWAP_TYPE_NONE =>
                      SwapInfoField(stat, f) = BOOT_SET_SWAP_INFO(cfg.image_index, bs.swap_type)
                /\ ImageOkField(stat, FLASH_AREA_IMAGE_SECONDARY(cfg.image_index)) = BOOT_FLAG_SET
                      => ImageOkField(stat, f) = BOOT_FLAG_SET
                /\ cfg.enc # "off" =>
                      \A slot \in {0, 1} : KeyField(stat, f, slot) = KeyMaterial(slot)

\* two complete swap_status_init calls in a row, same slot and same input
InitTwice ==
    /\ pc = "idle"
    /\ Len(hist) = 2
    /\ \A i \in {1, 2} : hist[i].name = "init" /\ hist[i].end = "ret" /\ hist[i].rc = 0
    /\ hist[2].fap = hist[1].fap
    /\ hist[2].bs = hist[1].bs
EndsWithMagic(e) == Len(e.w) > 0 /\ IsMagicWrite(e.w[Len(e.w)], e.fap)

\* C6: a second swap_status_init with the same slot and input leaves the
\* status record of the slot as the first call left it, byte for byte, and in
\* both calls the magic write is the last write.
C6_InitIdempotent ==
    InitTwice =>
        /\ hist[2].rec = hist[1].rec
        /\ EndsWithMagic(hist[1])
        /\ EndsWithMagic(hist[2])

\* both calls wrote swap_info, image_ok, swap_size, the two keys and the magic
C6_Witness ==
    /\ InitTwice
    /\ hist[1].bs.swap_type = BOOT_SWAP_TYPE_PERM
    /\ cfg.enc = "key"
    /\ ImageOkField(stat, hist[1].fap) = BOOT_FLAG_SET
    /\ Len(hist[2].w) = 6
    /\ MagicEqual(MagicField(stat, hist[1].fap))

(* ------------------------------------------------------------------ *)
(* Round trip through the field writers and the readers                *)
(* ------------------------------------------------------------------ *)
LegacyMagic(a, f) == AreaBytes(a, cfg.erased_val, f, fa_size(f) - BOOT_MAGIC_SZ, BOOT_MAGIC_SZ)
LegacyImageOk(a, f) ==
    AreaBytes(a, cfg.erased_val, f, fa_size(f) - BOOT_MAGIC_SZ - BOOT_MAX_ALIGN, 1)[1]
LegacyErased(a, f) ==
    IsErased(LegacyMagic(a, f)) /\ LegacyImageOk(a, f) = cfg.erased_val

Wrote(name) == \E i \in 1 .. Len(hist) : hist[i].name = name /\ hist[i].rc = 0
Written(name) == hist[CHOOSE i \in 1 .. Len(hist) : hist[i].name = name].bs

\* the record the written fields stand for
WrittenState ==
    [magic |-> IF Wrote("write_magic") THEN BOOT_MAGIC_GOOD ELSE BOOT_MAGIC_UNSET,
     swap_type |-> IF Wrote("write_swap_info") THEN Written("write_swap_info").swap_type
                   ELSE BOOT_SWAP_TYPE_NONE,
     copy_done |-> IF Wrote("write_copy_done") THEN BOOT_FLAG_SET ELSE BOOT_FLAG_UNSET,
     image_ok |-> IF Wrote("write_image_ok") THEN BOOT_FLAG_SET ELSE BOOT_FLAG_UNSET,
     image_num |-> IF Wrote("write_swap_info") THEN Written("write_swap_info").image_num
                   ELSE 0]

ReadBack == Returned("read") /\ Last.rc = 0
SizeBack == Returned("read_swap_size") /\ Last.rc = 0 /\ Wrote("write_swap_size")

\* C3 as stated: whatever the slot and whatever the slot's own area holds,
\* the readers yield exactly the written values.
C3_RoundTrip ==
    /\ ReadBack => st = WrittenState
    /\ SizeBack => Last.bs.swap_size = Written("write_swap_size").swap_size

\* C3: the fields written into an erased status region with the field writers
\* are the fields boot_read_swap_state decodes for that slot, provided the
\* legacy trailer at the tail of the slot's own area (magic and image_ok) is
\* erased; boot_read_swap_size yields the written swap_size when the record
\* was written for the primary slot of the image.
C3_RoundTripErasedLegacy ==
    /\ ReadBack /\ LegacyErased(snap.area, Last.fap) => st = WrittenState
    /\ SizeBack /\ hist[1].fap = Last.fap
          => Last.bs.swap_size = Written("write_swap_size").swap_size

\* all five fields were written for the primary slot and read back
C3_Witness ==
    /\ SizeBack
    /\ hist[1].fap = Last.fap
    /\ Len(hist) = Len(FieldWriters) + 2
    /\ \A i \in 1 .. Len(FieldWriters) : hist[i].name = FieldWriters[i] /\ hist[i].rc = 0
    /\ hist[Len(FieldWriters) + 1].name = "read"
    /\ hist[Len(FieldWriters) + 1].rc = 0
    /\ st = WrittenState
    /\ st.swap_type = BOOT_SWAP_TYPE_REVERT
    /\ st.image_num = 1
    /\ Last.bs.swap_size = U32Bytes(4660)

(* ------------------------------------------------------------------ *)
(* Legacy magic fallback                                               *)
(* ------------------------------------------------------------------ *)
\* a read of an upgrade slot found the status magic erased and the canonical
\* magic at the tail of the slot's own area
HealedMagic ==
    /\ ReadBack
    /\ IsUpgradeSlot(Last.fap)
    /\ IsErased(MagicField(snap.stat, Last.fap))
    /\ LegacyMagic(snap.area, Last.fap) = boot_img_magic

\* the read before the last one copied the magic into the status partition
SecondReadAfterHeal ==
    /\ ReadBack
    /\ Len(hist) = 2
    /\ hist[1].name = "read" /\ hist[1].end = "ret" /\ hist[1].rc = 0
    /\ hist[1].fap = Last.fap
    /\ \E i \in 1 .. Len(hist[1].w) : IsMagicWrite(hist[1].w[i], Last.fap)

\* C4: reading an upgrade slot whose status magic is erased and whose own area
\* ends with the canonical magic reports magic GOOD and leaves the canonical
\* magic in the status partition; the next read of the slot reports GOOD
\* without reading the magic from the slot's area.
C4_LegacyMagicHeals ==
    /\ HealedMagic => /\ st.magic = BOOT_MAGIC_GOOD
                      /\ MagicField(stat, Last.fap) = boot_img_magic
                      /\ \E i \in 1 .. Len(Last.w) : IsMagicWrite(Last.w[i], Last.fap)
    /\ SecondReadAfterHeal => /\ st.magic = BOOT_MAGIC_GOOD
                              /\ "magic" \notin rd.legacy_read
                              /\ IsErased(MagicField(hist[1].rec, Last.fap)) = FALSE

\* the second read of a slot whose first read healed the magic
C4_Witness ==
    /\ SecondReadAfterHeal
    /\ st.magic = BOOT_MAGIC_GOOD
    /\ "magic" \notin rd.legacy_read
    /\ MagicField(stat, Last.fap) = boot_img_magic

(* ------------------------------------------------------------------ *)
(* Status locator                                                      *)
(* ------------------------------------------------------------------ *)
\* C7: boot_read_swap_size returns 0 only when the status magic of the
\* image's primary slot is the canonical pattern, because boot_find_status
\* fails for any other magic bytes.
C7_FindStatusIffMagic ==
    Returned("read_swap_size") /\ Last.rc = 0
        => MagicField(stat, Last.fap) = boot_img_magic

(* ------------------------------------------------------------------ *)
(* Erase coverage                                                      *)
(* ------------------------------------------------------------------ *)
\* swap_erase_trailer_sectors returned 0 for a slot of the current image
ErasedTrailer ==
    /\ Returned("erase")
    /\ Last.rc = 0
    /\ Last.fap \in ImageSlots

\* C5: whatever the geometry of the status sectors, after
\* swap_erase_trailer_sectors every byte of the slot's status region and the
\* last BOOT_SWAP_STATUS_TRAILER_SIZE bytes of the slot's own area are erased.
C5_EraseCoversRegion ==
    ErasedTrailer =>
        /\ Last.rec = Erased
        /\ IsErased(AreaBytes(area, cfg.erased_val, Last.fap,
                              fa_size(Last.fap) - BOOT_SWAP_STATUS_TRAILER_SIZE,
                              BOOT_SWAP_STATUS_TRAILER_SIZE))

\* the same with sectors of one size only
EraseCoversUniformRegion ==
    (\A i \in 1 .. Len(sectors) : sectors[i] = sectors[1]) => C5_EraseCoversRegion

(* ------------------------------------------------------------------ *)
(* Handles and failures                                                *)
(* ------------------------------------------------------------------ *)
ReturnedFrom(names) ==
    pc = "idle" /\ Len(hist) > 0 /\ Last.end = "ret" /\ Last.name \in names

\* the handles the call left open or closed without having opened them
HandlesKept == opened = snap.opened /\ badclose = snap.badclose

\* C8: when boot_read_swap_state, boot_write_status, boot_find_status (through
\* boot_read_swap_size), swap_erase_trailer_sectors or swap_read_status
\* returns, on success or on error, the open handles are the ones that were
\* open before the call and no handle that was not open has been closed.
C8_HandlesReleased ==
    ReturnedFrom({"read", "write_status", "read_swap_size", "erase", "read_status"})
        => HandlesKept

\* C9: when a flash call made by boot_read_swap_state, boot_read_swap_size,
\* boot_write_status or swap_read_status has failed, the operation returns a
\* nonzero result.
C9_FailuresPropagated ==
    ReturnedFrom({"read", "read_swap_size", "write_status", "read_status"})
        /\ faults < snap.faults
        => Last.rc # 0

\* C10: when boot_read_swap_state returns an error, the caller's swap-state
\* record is as it was before the call.
C10_NoPartialRecord ==
    Returned("read") /\ Last.rc # 0 => st = snap.st

(* ------------------------------------------------------------------ *)
(* Stored data and errors                                              *)
(* ------------------------------------------------------------------ *)
\* every field of the caller's record is one of its sentinels
DecodedRecord ==
    /\ st.magic \in {BOOT_MAGIC_GOOD, BOOT_MAGIC_BAD, BOOT_MAGIC_UNSET}
    /\ st.copy_done \in {BOOT_FLAG_SET, BOOT_FLAG_UNSET, BOOT_FLAG_BAD}
    /\ st.image_ok \in {BOOT_FLAG_SET, BOOT_FLAG_UNSET, BOOT_FLAG_BAD}
    /\ st.swap_type <= BOOT_SWAP_TYPE_REVERT

\* C11: when no flash call of a boot_read_swap_state fails, whatever the
\* status partition and the slot hold and whatever slot area was passed in,
\* the read returns 0 and every decoded field is a sentinel.
C11_StoredDataNeverFails ==
    Returned("read") /\ faults = snap.faults => Last.rc = 0 /\ DecodedRecord

\* the same for the four image slots only
ImageSlotDataNeverFails ==
    Returned("read") /\ faults = snap.faults /\ Last.fap \in Slots
        => Last.rc = 0 /\ DecodedRecord

(* ------------------------------------------------------------------ *)
(* Offset arithmetic                                                   *)
(* ------------------------------------------------------------------ *)
OffsetIs(name, v) == call.name = name => rd.off = v

\* C12: for a region of raw size R >= 23 the offset functions return
\* magic_off = R - 16, image_ok_off = R - 17, copy_done_off = R - 18,
\* swap_info_off = R - 19, swap_size_off = R - 23, enc_key_off(slot) =
\* swap_size_off - (slot + 1) * key_width and status_off = 0, whatever the
\* area handle and the sector geometry.
C12_OffsetArithmetic ==
    /\ OffsetIs("boot_magic_off", cfg.raw - 16)
    /\ OffsetIs("boot_image_ok_off", cfg.raw - 17)
    /\ OffsetIs("boot_copy_done_off", cfg.raw - 18)
    /\ OffsetIs("boot_swap_info_off", cfg.raw - 19)
    /\ OffsetIs("boot_swap_size_off", cfg.raw - 23)
    /\ OffsetIs("boot_status_off", 0)
    /\ OffsetIs("boot_enc_key_off",
                (cfg.raw - 23) - (bs.slot + 1) * (IF cfg.enc = "tlv" THEN cfg.tlv_size ELSE 16))

\* swap_size_off of the smallest region is 0, for the scratch area and
\* sectors of different sizes
C12_Witness ==
    /\ call.name = "boot_swap_size_off"
    /\ cfg.raw = 23
    /\ rd.off = 0
    /\ rd.fap = FLASH_AREA_IMAGE_SCRATCH
    /\ sectors = << 136, 68, 68 >>

(* ------------------------------------------------------------------ *)
(* Self-heal of the reader                                             *)
(* ------------------------------------------------------------------ *)
IsImageOkWrite(w, f) ==
    w.kind = "update" /\ w.fa_id = f /\ w.off = boot_image_ok_off(f) /\ w.len = 1

\* C13: a boot_read_swap_state that copies both the magic and image_ok from
\* the legacy trailer writes the status magic after image_ok, so that the
\* status partition never holds the recovered magic while the recovered
\* image_ok is still missing from it.
C13_HealWritesMagicLast ==
    \A f \in Slots :
        /\ \A i, j \in 1 .. Len(wlog) :
              IsMagicWrite(wlog[i], f) /\ IsImageOkWrite(wlog[j], f) => j < i
        /\ call.name = "read" /\ call.fap = f
             /\ LegacyImageOk(snap.area, f) = BOOT_FLAG_SET
             /\ IsErased(<< ImageOkField(snap.stat, f) >>)
             /\ (\E i \in 1 .. Len(wlog) : IsMagicWrite(wlog[i], f))
             => ImageOkField(stat, f) = BOOT_FLAG_SET

\* the legacy image_ok fallback applies to the slot of the returned read
FallbackApplies(f) == IsUpgradeSlot(f) \/ (IsPrimarySlot(f) /\ st.copy_done = BOOT_FLAG_SET)
WroteImageOk(f) == \E i \in 1 .. Len(Last.w) : IsImageOkWrite(Last.w[i], f)

\* C14: when the status image_ok byte reads erased, a successful
\* boot_read_swap_state consults the legacy byte at
\* slot_size - BOOT_MAGIC_SZ - BOOT_MAX_ALIGN for an upgrade slot always and for
\* a primary slot only if copy_done decoded to SET; an erased legacy byte
\* leaves image_ok UNSET, a legacy SET makes image_ok SET and writes it at
\* image_ok_off of the status partition; when the fallback does not apply
\* image_ok is UNSET and the slot's own area is neither read nor written.
C14_ImageOkFallback ==
    ReadBack /\ IsErased(<< ImageOkField(snap.stat, Last.fap) >>) =>
        LET f == Last.fap
            legacy == LegacyImageOk(snap.area, f)
        IN  IF FallbackApplies(f)
            THEN /\ "image_ok" \in rd.legacy_read
                 /\ rd.trailer_off = fa_size(f) - BOOT_MAGIC_SZ - BOOT_MAX_ALIGN
                 /\ legacy = cfg.erased_val =>
                        st.image_ok = BOOT_FLAG_UNSET /\ ~WroteImageOk(f)
                 /\ legacy = BOOT_FLAG_SET /\ legacy # cfg.erased_val =>
                        /\ st.image_ok = BOOT_FLAG_SET
                        /\ WroteImageOk(f)
                        /\ ImageOkField(stat, f) = BOOT_FLAG_SET
            ELSE /\ st.image_ok = BOOT_FLAG_UNSET
                 /\ "image_ok" \notin rd.legacy_read
                 /\ ~WroteImageOk(f)
                 /\ area[f] = snap.area[f]

\* a primary slot whose copy_done was written and whose image_ok was not:
\* the legacy SET byte is reported and copied
C14_Witness ==
    /\ ReadBack
    /\ IsPrimarySlot(Last.fap)
    /\ IsErased(<< ImageOkField(snap.stat, Last.fap) >>)
    /\ st.copy_done = BOOT_FLAG_SET
    /\ LegacyImageOk(snap.area, Last.fap) = BOOT_FLAG_SET
    /\ st.image_ok = BOOT_FLAG_SET
    /\ WroteImageOk(Last.fap)

\* the swap_info byte of slot f when the call began
StoredSwapInfo(f) == SwapInfoField(snap.stat, f)

\* C15: boot_read_swap_state unpacks swap_type from the low four bits and
\* image_num from the high four bits of the status swap_info byte, and reports
\* swap_type NONE and image_num 0 when the byte reads erased or the unpacked
\* type is greater than REVERT; swap_read_status reports swap_type NONE when
\* the byte it read is erased.
C15_SwapInfoDecoding ==
    /\ Returned("read") /\ Last.rc = 0 =>
          LET b == StoredSwapInfo(Last.fap)
          IN  IF IsErased(<< b >>) \/ b % 16 > BOOT_SWAP_TYPE_REVERT
              THEN st.swap_type = BOOT_SWAP_TYPE_NONE /\ st.image_num = 0
              ELSE st.swap_type = b % 16 /\ st.image_num = b \div 16
    /\ Returned("read_status") /\ Last.rc = 0 /\ faults = snap.faults
          /\ Last.bs.source = BOOT_STATUS_SOURCE_PRIMARY_SLOT
          /\ IsErased(<< StoredSwapInfo(Last.fap) >>)
          => Last.bs.swap_type = BOOT_SWAP_TYPE_NONE

\* a stored swap type past REVERT was read and reported as NONE
C15_Witness ==
    /\ Returned("read") /\ Last.rc = 0
    /\ ~IsErased(<< StoredSwapInfo(Last.fap) >>)
    /\ StoredSwapInfo(Last.fap) % 16 > BOOT_SWAP_TYPE_REVERT
    /\ st.swap_type = BOOT_SWAP_TYPE_NONE /\ st.image_num = 0

\* swap_read_status found the byte erased and reported NONE
ReadStatusOfErased ==
    /\ Returned("read_status") /\ Last.rc = 0 /\ faults = snap.faults
    /\ Last.bs.source = BOOT_STATUS_SOURCE_PRIMARY_SLOT
    /\ IsErased(<< StoredSwapInfo(Last.fap) >>)
    /\ Last.bs.swap_type = BOOT_SWAP_TYPE_NONE

WroteMagic(f) == \E i \in 1 .. Len(Last.w) : IsMagicWrite(Last.w[i], f)

\* C16: when a boot_read_swap_state that copied a legacy value into the
\* status partition returns 0, the legacy bytes it recovered from read as
\* erased in the slot's own area: all BOOT_MAGIC_SZ magic bytes after a magic
\* copy, the image_ok byte after an image_ok copy, also when both were copied.
C16_LegacyErasedAfterHeal ==
    ReadBack =>
        /\ WroteMagic(Last.fap) => IsErased(LegacyMagic(area, Last.fap))
        /\ WroteImageOk(Last.fap) => LegacyImageOk(area, Last.fap) = cfg.erased_val

\* C17: boot_read_swap_state leaves every byte of the slot's own area
\* unchanged unless, in the same call, a magic or an image_ok read from the
\* legacy trailer was copied into the status partition.
C17_LegacyKeptWithoutHeal ==
    Returned("read") /\ ~WroteMagic(Last.fap) /\ ~WroteImageOk(Last.fap) => area = snap.area

IsKeyWrite(w, f) ==
    /\ cfg.enc # "off"
    /\ w.kind = "update" /\ w.fa_id = f
    /\ \E slot \in {0, 1} : w.off = boot_enc_key_off(cfg, f, slot)
Apart(v, w) == v.fa_id # w.fa_id \/ v.off + v.len <= w.off \/ w.off + w.len <= v.off

\* C18: the status updates a swap_status_init issues for swap_info, image_ok,
\* swap_size, the two keys and the magic cover pairwise disjoint byte ranges,
\* and a key write is never longer than the stride between the key offsets.
C18_FieldWritesDisjoint ==
    call.name = "init" =>
        /\ \A i, j \in 1 .. Len(wlog) :
              i < j /\ wlog[i].kind = "update" /\ wlog[j].kind = "update"
                  => Apart(wlog[i], wlog[j])
        /\ \A i \in 1 .. Len(wlog) :
              IsKeyWrite(wlog[i], call.fap) => wlog[i].len <= EncKeyStride(cfg)

\* C19: for every geometry of the status sectors, the sector index the
\* do-while loop of swap_erase_trailer_sectors is about to use is the index of
\* an existing status sector, and no sector is erased twice.
C19_SectorWalkInBounds ==
    call.name = "erase" =>
        /\ pc = "et_loop" => er.sector >= 0 /\ er.sector < Len(sectors)
        /\ \A i, j \in 1 .. Len(wlog) :
              i < j /\ wlog[i].fa_id = FLASH_AREA_IMAGE_SWAP_STATUS
                    /\ wlog[j].fa_id = FLASH_AREA_IMAGE_SWAP_STATUS
                  => wlog[i].off # wlog[j].off

\* what an uninterrupted boot_read_swap_state of upgrade slot f reports when
\* it starts with status partition s and slot areas a
WouldMagicGood(s, a, f) ==
    IF IsErased(MagicField(s, f))
    THEN LegacyMagic(a, f) = boot_img_magic
    ELSE MagicField(s, f) = boot_img_magic
WouldImageOkSet(s, a, f) ==
    IF IsErased(<< ImageOkField(s, f) >>)
    THEN LegacyImageOk(a, f) = BOOT_FLAG_SET /\ LegacyImageOk(a, f) # cfg.erased_val
    ELSE ImageOkField(s, f) = BOOT_FLAG_SET

\* a read that no reset preceded reports exactly that
UninterruptedReadReports ==
    ReadBack /\ Len(hist) = 1 /\ IsUpgradeSlot(Last.fap) =>
        /\ st.magic = BOOT_MAGIC_GOOD <=> WouldMagicGood(snap.stat, snap.area, Last.fap)
        /\ st.image_ok = BOOT_FLAG_SET <=> WouldImageOkSet(snap.stat, snap.area, Last.fap)

\* the reads of slot f before the last one were all cut by a reset
ReadAfterCuts(f) ==
    /\ ReadBack
    /\ Last.fap = f
    /\ Len(hist) > 1
    /\ \A i \in 1 .. Len(hist) - 1 :
          hist[i].name = "read" /\ hist[i].fap = f /\ hist[i].end = "reset"

\* C20: when an uninterrupted boot_read_swap_state of an upgrade slot would
\* report magic GOOD (image_ok SET), from the status partition or through the
\* legacy fallback, and the call is cut by a reset before or after any of its
\* status updates or its legacy erase, the next complete read of the slot
\* still reports magic GOOD (image_ok SET).
C20_ResetLosesNothing ==
    \A f \in Slots :
        IsUpgradeSlot(f) /\ ReadAfterCuts(f) =>
            LET p == hist[1].pre
            IN  /\ WouldMagicGood(p.stat, p.area, f) => st.magic = BOOT_MAGIC_GOOD
                /\ WouldImageOkSet(p.stat, p.area, f) => st.image_ok = BOOT_FLAG_SET

\* the first read was cut right after it copied the legacy magic, with the
\* legacy image_ok still to be copied; the second read reports both
C20_Witness ==
    \E f \in Slots :
        /\ IsUpgradeSlot(f) /\ ReadAfterCuts(f)
        /\ hist[1].w = << [kind |-> "update", fa_id |-> f, off |-> boot_magic_off(f),
                           len |-> BOOT_MAGIC_SZ] >>
        /\ WouldImageOkSet(hist[1].pre.stat, hist[1].pre.area, f)
        /\ IsErased(<< ImageOkField(hist[1].pre.stat, f) >>)
        /\ st.magic = BOOT_MAGIC_GOOD
        /\ st.image_ok = BOOT_FLAG_SET
        /\ WroteImageOk(f)

====
